---- MODULE Spec2Model ----
(***************************************************************************)
(* A model of src/src/trainer.py: Trainer.__init__ (sharding, the layer    *)
(* list), modify_functions (the per-layer instrumentation), Trainer.train  *)
(* (warm-up, steady steps, one profiled step, post-processing of the       *)
(* trace) and Trainer.train_step.                                          *)
(*                                                                         *)
(* The collaborators the file calls but does not define are modelled by    *)
(* their contracts: the recorder (vtrain_profiler: init_trace, timestamp,  *)
(* finish_trace; spec.md section 4.1), the optimizer (FusedAdam.step;      *)
(* spec.md section 4.3) and the numeric engine (torch: autograd nodes,     *)
(* module hooks, device synchronisation).  The model's forward applies     *)
(* its top-level layers once each, in named_children() order.              *)
(***************************************************************************)
EXTENDS Integers, Sequences, FiniteSets, TLC

\* ------------------------------------------------------------------ bounds
MaxLayers == 3      \* top-level layers of a model: 1..MaxLayers
MaxRuns == 2        \* train() calls made on one Trainer
MaxTicks == 1       \* times the recorder's clock advances between two of its readings, in all
ClockStart == 9     \* the clock's reading when the process starts
MaxRawLen == 3      \* lines of an arbitrary recorder text (SpecPost)
RecursionDepth == 2 \* nested calls before the interpreter raises RecursionError

\* ------------------------------------------------------- program constants
WarmupSteps == 10   \* trainer.py:111  for _ in range(10)
num_step == 5       \* trainer.py:103  num_step = 5

\* ------------------------------------------------------------- the layers
\* What all(p.requires_grad ...) and the autograd engine can tell apart in a
\* layer: "all" (has parameters, every one requires grad), "some" (some
\* frozen, some not), "frozen" (has parameters, none requires grad) and
\* "none" (no parameters at all).
LayerKinds == {"all", "some", "frozen", "none"}

LayerNames == <<"L1", "L2", "L3", "L4", "L5">>

\* all(p.requires_grad for p in m.parameters()): all() of nothing is True.
AllRequireGrad(k) == k \in {"all", "none"}

\* Whether the layer's output depends on a tensor that requires grad through
\* one of the layer's own parameters.
AnyRequiresGrad(k) == k \in {"all", "some"}

Models == UNION {[1..n -> LayerKinds] : n \in 1..MaxLayers}

\* -------------------------------------------------------- trace lines
\* A trace line "<field>,<label>": the leading field as its characters, the
\* label as its words.  The empty line has no characters and no label.
EmptyLine == [field |-> <<>>, label |-> <<>>]

DigitChars == <<"0", "1", "2", "3", "4", "5", "6", "7", "8", "9">>

DigitValue(c) == CHOOSE d \in 0..9 : DigitChars[d + 1] = c

IsDigit(c) == \E d \in 0..9 : DigitChars[d + 1] = c

RECURSIVE Digits(_)
\* The recorder's formatting of an integer timestamp: its decimal digits.
Digits(n) == IF n < 10 THEN <<DigitChars[n + 1]>>
             ELSE Append(Digits(n \div 10), DigitChars[(n % 10) + 1])

\* int(s) raises ValueError unless s is a non-empty run of digits (no sign,
\* blank or underscore occurs in the fields modelled here).
IntFails(s) == Len(s) = 0 \/ \E i \in 1..Len(s) : ~IsDigit(s[i])

RECURSIVE IntOf(_)
\* int(s) for a field int() accepts.
IntOf(s) == IF Len(s) = 0 THEN 0
            ELSE 10 * IntOf(SubSeq(s, 1, Len(s) - 1)) + DigitValue(s[Len(s)])

\* l.split(',')[0]
LeadingField(l) == l.field

\* The key a sort of the lines as strings would use: digits compare from the
\* left, so a field counts as if padded with zeros on the right.
KeyAsString(l) ==
    LET f == LeadingField(l)
        D(i) == IF i <= Len(f) THEN DigitValue(f[i]) + 1 ELSE 0
    IN 121 * D(1) + 11 * D(2) + D(3)

\* key=lambda l: int(l.split(',')[0])
Key(l) == IntOf(LeadingField(l))

RECURSIVE InsertUnstable(_, _)
InsertUnstable(s, l) ==
    IF s = <<>> THEN <<l>>
    ELSE IF Key(s[Len(s)]) < Key(l) THEN Append(s, l)
    ELSE Append(InsertUnstable(SubSeq(s, 1, Len(s) - 1), l), s[Len(s)])

RECURSIVE Insert(_, _)
\* One line put into a sorted list behind every line whose key is not larger.
Insert(s, l) ==
    IF s = <<>> THEN <<l>>
    ELSE IF Key(s[Len(s)]) <= Key(l) THEN Append(s, l)
    ELSE Append(Insert(SubSeq(s, 1, Len(s) - 1), l), s[Len(s)])

RECURSIVE Sorted(_)
\* list.sort(key=...): ascending by key, stable.
Sorted(s) == IF s = <<>> THEN <<>>
             ELSE Insert(Sorted(SubSeq(s, 1, Len(s) - 1)), s[Len(s)])

IsBlank(l) == l = EmptyLine

RECURSIVE DropLeadingBlank(_)
DropLeadingBlank(s) == IF s # <<>> /\ IsBlank(s[1]) THEN DropLeadingBlank(Tail(s))
                       ELSE s

RECURSIVE DropTrailingBlank(_)
DropTrailingBlank(s) ==
    IF s # <<>> /\ IsBlank(s[Len(s)]) THEN DropTrailingBlank(SubSeq(s, 1, Len(s) - 1))
    ELSE s

\* text.strip().split("\n") of a text given by its lines: strip() removes the
\* blank lines at both ends, and split() of the empty text is [""].
StripSplit(text) ==
    LET t == DropTrailingBlank(DropLeadingBlank(text))
    IN IF t = <<>> THEN <<EmptyLine>> ELSE t

\* ------------------------------------------------------------------ state
VARIABLES
    use_fsdp,     \* config.use_fsdp
    given,        \* the kind of each top-level layer of the model handed to Trainer()
    layers,       \* self.layers: the name of each module listed, in order
    profile,      \* the argument profile of the current (or the last) train_step call
    kinds,        \* the kind of each top-level layer of self.model, in named_children() order
    recStrict,    \* whether the recorder refuses timestamp() outside a session
    forward,      \* per layer, m.forward: "orig" or "wrapped"
    forward_,     \* per layer, m.forward_: "unset", "orig" or "wrapped"
    hooks,        \* per layer, the number of full backward hooks registered on it
    param_groups, \* the parameter groups handed to the optimizer
    pc,           \* where train() is
    stepPc,       \* where train_step() is, "-" outside a step cycle
    iter,         \* step cycles completed in the current loop
    fwdIdx,       \* the next layer the model's forward applies
    tape,         \* the autograd graph of the current step, in forward order
    recActive,    \* the recorder has a session open
    recBuf,       \* the recorder's buffered lines
    clock,        \* the recorder's clock
    pending,      \* device work dispatched since the last synchronisation barrier
    raw,          \* the lines of the text finish_trace() returned
    traces,       \* the local list traces
    returned,     \* what train() returned: [set, value]
    error,        \* the exception train() raised, "" if none
    dest,         \* the destination file: [exists, lines]
    destAtCall,   \* the destination file when train() was called
    runs          \* train() calls made so far

vars == <<use_fsdp, given, layers, profile,
          kinds, recStrict, forward, forward_, hooks, param_groups, pc, stepPc, iter,
          fwdIdx, tape, recActive, recBuf, clock, pending, raw, traces, returned,
          error, dest, destAtCall, runs>>

N == Len(kinds)

\* layer.name = f"{name}"  (Trainer.__init__)
Name(i) == LayerNames[i]

NoReturn == [set |-> FALSE, value |-> <<>>]

NoFile == [exists |-> FALSE, lines |-> <<>>]

\* What the destination may hold before train() is called.
OldFile == [exists |-> TRUE, lines |-> <<[field |-> <<"0">>, label |-> <<"old">>]>>]

InStep == pc \in {"warmup", "steady", "profiled"}

\* The state after Trainer.__init__ (use_fsdp off): layers listed and named,
\* nothing instrumented yet, no recorder session.
Init ==
    /\ kinds \in Models
    /\ use_fsdp = FALSE
    /\ given = kinds
    /\ layers = [i \in 1..Len(kinds) |-> LayerNames[i]]
    /\ recStrict \in BOOLEAN
    /\ forward = [i \in 1..Len(kinds) |-> "orig"]
    /\ forward_ = [i \in 1..Len(kinds) |-> "unset"]
    /\ hooks = [i \in 1..Len(kinds) |-> 0]
    /\ param_groups = <<>>
    /\ pc = "constructed"
    /\ profile = FALSE
    /\ stepPc = "-"
    /\ iter = 0
    /\ fwdIdx = 1
    /\ tape = <<>>
    /\ recActive = FALSE
    /\ recBuf = <<>>
    /\ clock = ClockStart
    /\ pending = FALSE
    /\ raw = <<>>
    /\ traces = <<>>
    /\ returned = NoReturn
    /\ error = ""
    /\ dest \in {NoFile, OldFile}
    /\ destAtCall = dest
    /\ runs = 0

\* ------------------------------------------------------------ train(): setup
ParamGroupsAllLayers == [i \in 1..N |-> [params |-> i, layer |-> Name(i)]]

\* [{"params": l.parameters(), ..., "layer": l.name} for l in self.layers[:-1]]
ParamGroups == [i \in 1..(N - 1) |-> [params |-> i, layer |-> Name(i)]]

\* modify_functions: the hooks each layer has after the loop.
HooksAfterModify ==
    [i \in 1..N |-> hooks[i] + (IF AllRequireGrad(kinds[i]) THEN 1 ELSE 0)]

\* modify_functions(model): m.forward_ = m.forward; m.forward = the wrapper;
\* a full backward hook on every layer whose parameters all require grad.
modify_functions ==
    /\ forward_' = [i \in 1..N |-> forward[i]]
    /\ forward' = [i \in 1..N |-> "wrapped"]
    /\ hooks' = HooksAfterModify

\* train(), lines 74-108: the criterion, the parameter groups and the
\* optimizer, modify_functions(self.model), the inputs and labels.
TrainEnter ==
    /\ pc \in {"constructed", "returned", "raised"}
    /\ runs < MaxRuns
    /\ runs' = runs + 1
    /\ destAtCall' = dest
    /\ param_groups' = ParamGroups
    /\ modify_functions
    /\ pc' = "warmup"
    /\ stepPc' = "zero_grad"
    /\ iter' = 0
    /\ fwdIdx' = 1
    /\ tape' = <<>>
    /\ raw' = <<>>
    /\ traces' = <<>>
    /\ returned' = NoReturn
    /\ error' = ""
    /\ profile' = FALSE
    /\ UNCHANGED <<use_fsdp, given, layers,
                   kinds, recStrict, recActive, recBuf, clock, pending, dest>>

\* The first call of train() on the Trainer.
TrainFirst == runs = 0 /\ TrainEnter

\* ------------------------------------------------------------ the recorder
ClockCap == ClockStart + MaxTicks

RECURSIVE Stamp(_, _, _, _)
\* timestamp(label) for each label in turn: the clock is read (having advanced
\* or not since the last reading) and "<now>,<label>" is appended.
Stamp(buf, clk, labels, tks) ==
    IF labels = <<>> THEN [buf |-> buf, clk |-> clk]
    ELSE LET now == IF clk + tks[1] > ClockCap THEN ClockCap ELSE clk + tks[1]
         IN Stamp(Append(buf, [field |-> Digits(now), label |-> labels[1]]),
                  now, Tail(labels), Tail(tks))

\* timestamp() outside a session: refused by a strict recorder.
NotActive == recStrict /\ ~recActive

\* The calls timestamp(l) for l in labels, made where the recorder accepts
\* them: recorded in a session, dropped outside one.
Timestamps(labels) ==
    IF recActive
    THEN \E tks \in [1..Len(labels) -> {0, 1}] :
            LET r == Stamp(recBuf, clock, labels, tks)
            IN recBuf' = r.buf /\ clock' = r.clk
    ELSE UNCHANGED <<recBuf, clock>>

\* init_trace(): a new session with an empty buffer.
init_trace == recActive' = TRUE /\ recBuf' = <<>>

\* finish_trace(): the session ends and its text is handed over.
finish_trace == recActive' = FALSE /\ recBuf' = <<>> /\ raw' = recBuf

\* ---------------------------------------------------------- the exceptions
\* An exception leaves train_step() and train(): nothing catches it, and the
\* locals of both (the loop counter, the step's graph) go with their frames.
Raise(e) ==
    /\ pc' = "raised"
    /\ error' = e
    /\ stepPc' = "-"
    /\ iter' = 0
    /\ fwdIdx' = 1
    /\ tape' = <<>>

\* ------------------------------------------------------------ autograd
\* The output of layer i requires grad when a parameter of it or of a layer
\* before it does: the model's inputs (torch.randint) never do.
OutReq(i) == \E j \in 1..i : AnyRequiresGrad(kinds[j])

InReq(i) == i > 1 /\ OutReq(i - 1)

Copies(n, label) == [k \in 1..n |-> label]

\* The nodes one call of layer i adds to the graph, in forward order, each
\* with the labels recorded when backward runs it: the module's input-side
\* hook node (present when the layer has a full backward hook and an input
\* requires grad; the hooks fire there), the node of the layer's output
\* (ret.grad_fn, with the pre-hook the wrapper registered) and the module's
\* output-side hook node (the hooks fire there when no input requires grad).
Nodes(i) ==
    (IF hooks[i] > 0 /\ InReq(i)
       THEN <<[layer |-> i, node |-> "in",
               labels |-> Copies(hooks[i], <<"backward end", Name(i)>>)]>>
       ELSE <<>>)
    \o <<[layer |-> i, node |-> "op", labels |-> <<<<"backward start", Name(i)>>>>]>>
    \o (IF hooks[i] > 0
          THEN <<[layer |-> i, node |-> "out",
                  labels |-> IF InReq(i) THEN <<>>
                             ELSE Copies(hooks[i], <<"backward end", Name(i)>>)]>>
          ELSE <<>>)

\* A wrapper that called its backward_pre_hook instead of registering it.
ForwardLabelsCallingHook(i) ==
    <<<<"forward start", Name(i)>>, <<"forward end", Name(i)>>,
      <<"backward start", Name(i)>>>>

\* What forward_with_info records around the original forward of layer i.
ForwardLabels(i) == <<<<"forward start", Name(i)>>, <<"forward end", Name(i)>>>>

\* -------------------------------------------------------------- train_step
\* model.zero_grad(set_to_none=True), then model(inputs) begins.
ZeroGrad ==
    /\ InStep /\ stepPc = "zero_grad"
    /\ stepPc' = "forward"
    /\ fwdIdx' = 1
    /\ tape' = <<>>
    /\ pending' = TRUE
    /\ UNCHANGED <<use_fsdp, given, layers, profile,
                   kinds, recStrict, forward, forward_, hooks, param_groups, pc, iter,
                   recActive, recBuf, clock, raw, traces, returned, error, dest,
                   destAtCall, runs>>

\* forward_with_info on the next layer: "forward start", the original forward,
\* "forward end", the pre-hook on ret.grad_fn.
ForwardLayer ==
    /\ InStep /\ stepPc = "forward"
    /\ LET i == fwdIdx IN
       IF NotActive
       THEN /\ Raise("NotActiveError")
            /\ UNCHANGED <<recBuf, clock>>
       ELSE IF forward_[i] = "wrapped"
       THEN \* self.forward_ is the wrapper itself: it calls itself until the
            \* interpreter gives up.
            /\ Timestamps(Copies(RecursionDepth, <<"forward start", Name(i)>>))
            /\ Raise("RecursionError")
       ELSE IF ~OutReq(i)
       THEN \* ret.grad_fn is None
            /\ Timestamps(ForwardLabels(i))
            /\ Raise("AttributeError")
       ELSE /\ Timestamps(ForwardLabels(i))
            /\ tape' = tape \o Nodes(i)
            /\ fwdIdx' = i + 1
            /\ stepPc' = IF i = N THEN "criterion" ELSE "forward"
            /\ UNCHANGED <<pc, error, iter>>
    /\ pending' = TRUE
    /\ UNCHANGED <<use_fsdp, given, layers, profile,
                   kinds, recStrict, forward, forward_, hooks, param_groups,
                   recActive, raw, traces, returned, dest, destAtCall, runs>>

CriterionNoTimestamps ==
    /\ InStep /\ stepPc = "criterion"
    /\ stepPc' = "backward"
    /\ pending' = TRUE
    /\ UNCHANGED <<use_fsdp, given, layers, profile,
                   kinds, recStrict, forward, forward_, hooks, param_groups, pc, iter,
                   fwdIdx, tape, recActive, recBuf, clock, raw, traces, returned,
                   error, dest, destAtCall, runs>>

\* A train_step that went from the loss straight to the optimizer.
CriterionSkippingBackward ==
    /\ InStep /\ stepPc = "criterion"
    /\ IF NotActive
       THEN Raise("NotActiveError") /\ UNCHANGED <<recBuf, clock>>
       ELSE /\ Timestamps(<<<<"forward start", "loss">>, <<"forward end", "loss">>>>)
            /\ stepPc' = "step"
            /\ tape' = <<>>
            /\ UNCHANGED <<pc, error, iter, fwdIdx>>
    /\ pending' = TRUE
    /\ UNCHANGED <<use_fsdp, given, layers, profile,
                   kinds, recStrict, forward, forward_, hooks, param_groups,
                   recActive, raw, traces, returned, dest, destAtCall, runs>>

\* criterion(outputs, labels): "forward start loss", the loss, "forward end loss".
Criterion ==
    /\ InStep /\ stepPc = "criterion"
    /\ IF NotActive
       THEN Raise("NotActiveError") /\ UNCHANGED <<recBuf, clock>>
       ELSE /\ Timestamps(<<<<"forward start", "loss">>, <<"forward end", "loss">>>>)
            /\ stepPc' = "backward"
            /\ UNCHANGED <<pc, error, iter, fwdIdx, tape>>
    /\ pending' = TRUE
    /\ UNCHANGED <<use_fsdp, given, layers, profile,
                   kinds, recStrict, forward, forward_, hooks, param_groups,
                   recActive, raw, traces, returned, dest, destAtCall, runs>>

\* loss.backward(): the engine runs the graph's nodes last to first, each
\* node's hooks recording their labels.
BackwardNode ==
    /\ InStep /\ stepPc = "backward"
    /\ tape # <<>>
    /\ LET n == tape[Len(tape)] IN
       IF NotActive /\ n.labels # <<>>
       THEN Raise("NotActiveError") /\ UNCHANGED <<recBuf, clock>>
       ELSE /\ Timestamps(n.labels)
            /\ tape' = SubSeq(tape, 1, Len(tape) - 1)
            /\ stepPc' = IF Len(tape) = 1 THEN "step" ELSE "backward"
            /\ UNCHANGED <<pc, error, iter, fwdIdx>>
    /\ pending' = TRUE
    /\ UNCHANGED <<use_fsdp, given, layers, profile,
                   kinds, recStrict, forward, forward_, hooks, param_groups,
                   recActive, raw, traces, returned, dest, destAtCall, runs>>

\* What optimizer.step(profile=...) records: its own start and end when asked
\* to profile, nothing otherwise.
OptimizerLabels(asked) ==
    IF asked THEN <<<<"optimizer start", "step">>, <<"optimizer end", "step">>>>
    ELSE <<>>

\* optimizer.step(profile=profile)
OptimizerStep ==
    /\ InStep /\ stepPc = "step"
    /\ Timestamps(OptimizerLabels(profile))
    /\ stepPc' = "opt_zero_grad"
    /\ pending' = TRUE
    /\ UNCHANGED <<use_fsdp, given, layers, profile,
                   kinds, recStrict, forward, forward_, hooks, param_groups, pc, iter,
                   fwdIdx, tape, recActive, raw, traces, returned, error, dest,
                   destAtCall, runs>>

\* A train() that ran a second step cycle inside the recorder's session.
OptimizerZeroGradProfilingTwice ==
    /\ InStep /\ stepPc = "opt_zero_grad"
    /\ pending' = TRUE
    /\ IF pc = "warmup"
       THEN IF iter + 1 < WarmupSteps
            THEN pc' = "warmup" /\ iter' = iter + 1 /\ stepPc' = "zero_grad"
            ELSE pc' = "steady" /\ iter' = 0 /\ stepPc' = "zero_grad"
       ELSE IF pc = "steady"
       THEN IF iter + 1 < num_step
            THEN pc' = "steady" /\ iter' = iter + 1 /\ stepPc' = "zero_grad"
            ELSE pc' = "synchronize" /\ iter' = 0 /\ stepPc' = "-"
       ELSE IF iter = 0
       THEN pc' = "profiled" /\ iter' = 1 /\ stepPc' = "zero_grad"
       ELSE pc' = "synchronize_profiled" /\ iter' = 0 /\ stepPc' = "-"
    /\ profile' = (pc = "profiled" /\ iter = 0)
    /\ UNCHANGED <<use_fsdp, given, layers,
                   kinds, recStrict, forward, forward_, hooks, param_groups, fwdIdx,
                   tape, recActive, recBuf, clock, raw, traces, returned, error, dest,
                   destAtCall, runs>>

\* optimizer.zero_grad(): train_step returns, and train() goes on: the next
\* warm-up step (after empty_cache), the next steady step, or the barrier.
OptimizerZeroGrad ==
    /\ InStep /\ stepPc = "opt_zero_grad"
    /\ pending' = TRUE
    /\ IF pc = "warmup"
       THEN IF iter + 1 < WarmupSteps
            THEN pc' = "warmup" /\ iter' = iter + 1 /\ stepPc' = "zero_grad"
            ELSE pc' = "steady" /\ iter' = 0 /\ stepPc' = "zero_grad"
       ELSE IF pc = "steady"
       THEN IF iter + 1 < num_step
            THEN pc' = "steady" /\ iter' = iter + 1 /\ stepPc' = "zero_grad"
            ELSE pc' = "synchronize" /\ iter' = 0 /\ stepPc' = "-"
       ELSE pc' = "synchronize_profiled" /\ iter' = 0 /\ stepPc' = "-"
    /\ profile' = (IF stepPc' = "zero_grad" THEN FALSE ELSE profile)
    /\ UNCHANGED <<use_fsdp, given, layers,
                   kinds, recStrict, forward, forward_, hooks, param_groups, fwdIdx,
                   tape, recActive, recBuf, clock, raw, traces, returned, error, dest,
                   destAtCall, runs>>

\* A train() that saved what the recorder holds when a step fails.
StepFailsSalvaging ==
    /\ InStep
    /\ Raise("RuntimeError")
    /\ dest' = IF recActive THEN [exists |-> TRUE, lines |-> recBuf] ELSE dest
    /\ UNCHANGED <<use_fsdp, given, layers, profile,
                   kinds, recStrict, forward, forward_, hooks, param_groups,
                   recActive, recBuf, clock, pending, raw, traces,
                   returned, destAtCall, runs>>

\* A numeric or device error (out of memory, a shape mismatch) raised by the
\* engine in the operation train_step was about to make.
StepFails ==
    /\ InStep
    /\ Raise("RuntimeError")
    /\ UNCHANGED <<use_fsdp, given, layers, profile,
                   kinds, recStrict, forward, forward_, hooks, param_groups,
                   recActive, recBuf, clock, pending, raw, traces,
                   returned, dest, destAtCall, runs>>

\* ------------------------------------------------- train(): the profiled run
\* torch.cuda.synchronize(): returns once all dispatched device work is done.
synchronize == pending' = FALSE

\* Line 118: the barrier after the steady steps.
Synchronize ==
    /\ pc = "synchronize"
    /\ synchronize
    /\ pc' = "init_trace"
    /\ UNCHANGED <<use_fsdp, given, layers, profile,
                   kinds, recStrict, forward, forward_, hooks, param_groups, stepPc,
                   iter, fwdIdx, tape, recActive, recBuf, clock, raw, traces,
                   returned, error, dest, destAtCall, runs>>

\* A train() that ran the step inside the session without profile=True.
InitTraceWithoutFlag ==
    /\ pc = "init_trace"
    /\ IF recActive
       THEN Raise("AlreadyActiveError") /\ UNCHANGED <<recActive, recBuf>>
       ELSE /\ init_trace /\ pc' = "profiled" /\ stepPc' = "zero_grad"
            /\ UNCHANGED <<error, iter, fwdIdx, tape>>
    /\ UNCHANGED <<use_fsdp, given, layers, profile,
                   kinds, recStrict, forward, forward_, hooks, param_groups,
                   clock, pending, raw, traces, returned, dest, destAtCall, runs>>

\* Line 121: init_trace(), refused while a session is open; then the profiled
\* train_step begins.
InitTrace ==
    /\ pc = "init_trace"
    /\ IF recActive
       THEN Raise("AlreadyActiveError") /\ UNCHANGED <<recActive, recBuf, profile>>
       ELSE /\ init_trace /\ pc' = "profiled" /\ stepPc' = "zero_grad"
            /\ profile' = TRUE
            /\ UNCHANGED <<error, iter, fwdIdx, tape>>
    /\ UNCHANGED <<use_fsdp, given, layers,
                   kinds, recStrict, forward, forward_, hooks, param_groups,
                   clock, pending, raw, traces, returned, dest, destAtCall, runs>>

SynchronizeProfiledSkipped ==
    /\ pc = "synchronize_profiled"
    /\ pc' = "finish_trace"
    /\ UNCHANGED <<use_fsdp, given, layers, profile,
                   kinds, recStrict, forward, forward_, hooks, param_groups, stepPc,
                   iter, fwdIdx, tape, recActive, recBuf, clock, pending, raw, traces,
                   returned, error, dest, destAtCall, runs>>

\* Line 125: the barrier after the profiled step.
SynchronizeProfiled ==
    /\ pc = "synchronize_profiled"
    /\ synchronize
    /\ pc' = "finish_trace"
    /\ UNCHANGED <<use_fsdp, given, layers, profile,
                   kinds, recStrict, forward, forward_, hooks, param_groups, stepPc,
                   iter, fwdIdx, tape, recActive, recBuf, clock, raw, traces,
                   returned, error, dest, destAtCall, runs>>

\* Line 126: traces = finish_trace().strip().split("\n")
FinishTrace ==
    /\ pc = "finish_trace"
    /\ finish_trace
    /\ traces' = StripSplit(recBuf)
    /\ pc' = "sort"
    /\ UNCHANGED <<use_fsdp, given, layers, profile,
                   kinds, recStrict, forward, forward_, hooks, param_groups, stepPc,
                   iter, fwdIdx, tape, clock, pending, returned, error, dest,
                   destAtCall, runs>>

\* A sort that skipped the lines int() refuses.
SortTracesDroppingLines ==
    /\ pc = "sort"
    /\ traces' = Sorted(SelectSeq(traces, LAMBDA l : ~IntFails(LeadingField(l))))
    /\ pc' = "write"
    /\ UNCHANGED <<use_fsdp, given, layers, profile,
                   kinds, recStrict, forward, forward_, hooks, param_groups, stepPc,
                   iter, fwdIdx, tape, recActive, recBuf, clock, pending, raw, returned,
                   error, dest, destAtCall, runs>>

\* Line 127: traces.sort(key=lambda l: int(l.split(',')[0])).  The keys are
\* computed first; int() raising leaves the list as it was.
SortTraces ==
    /\ pc = "sort"
    /\ IF \E k \in 1..Len(traces) : IntFails(LeadingField(traces[k]))
       THEN Raise("ValueError") /\ UNCHANGED traces
       ELSE /\ traces' = Sorted(traces) /\ pc' = "write"
            /\ UNCHANGED <<stepPc, error, iter, fwdIdx, tape>>
    /\ UNCHANGED <<use_fsdp, given, layers, profile,
                   kinds, recStrict, forward, forward_, hooks, param_groups,
                   recActive, recBuf, clock, pending, raw, returned,
                   dest, destAtCall, runs>>

\* A write that opened the destination for appending.
WriteFileAppending ==
    /\ pc = "write"
    /\ dest' = [exists |-> TRUE, lines |-> dest.lines \o traces]
    /\ pc' = "return"
    /\ UNCHANGED <<use_fsdp, given, layers, profile,
                   kinds, recStrict, forward, forward_, hooks, param_groups, stepPc,
                   iter, fwdIdx, tape, recActive, recBuf, clock, pending, raw, traces,
                   returned, error, destAtCall, runs>>

\* Lines 131-132: open(log_filename, "w") and f.write("\n".join(traces)).
WriteFile ==
    /\ pc = "write"
    /\ dest' = [exists |-> TRUE, lines |-> traces]
    /\ pc' = "return"
    /\ UNCHANGED <<use_fsdp, given, layers, profile,
                   kinds, recStrict, forward, forward_, hooks, param_groups, stepPc,
                   iter, fwdIdx, tape, recActive, recBuf, clock, pending, raw, traces,
                   returned, error, destAtCall, runs>>

\* Line 134: return traces
Return ==
    /\ pc = "return"
    /\ returned' = [set |-> TRUE, value |-> traces]
    /\ pc' = "returned"
    /\ UNCHANGED <<use_fsdp, given, layers, profile,
                   kinds, recStrict, forward, forward_, hooks, param_groups, stepPc,
                   iter, fwdIdx, tape, recActive, recBuf, clock, pending, raw, traces,
                   error, dest, destAtCall, runs>>

\* ------------------------------------------------------- the specifications
Next ==
    \/ TrainFirst
    \/ ZeroGrad
    \/ ForwardLayer
    \/ Criterion
    \/ BackwardNode
    \/ OptimizerStep
    \/ OptimizerZeroGrad
    \/ StepFails
    \/ Synchronize
    \/ InitTrace
    \/ SynchronizeProfiled
    \/ FinishTrace
    \/ SortTraces
    \/ WriteFile
    \/ Return

\* One call of train() on a new Trainer, for every model of up to MaxLayers
\* layers.
Spec == Init /\ [][Next]_vars

\* The leading fields of the lines a recorder may hand back: integers ("9",
\* "10", and "09", which int() reads as 9), a float, a word, nothing.
PostFields == {<<"9">>, <<"1", "0">>, <<"0", "9">>, <<"1", ".", "5">>,
               <<"a", "b", "c">>, <<>>}

PostLabels == {<<"forward start", "L1">>, <<"forward end", "L1">>}

PostLines == {EmptyLine} \cup {[field |-> f, label |-> lb] : f \in PostFields, lb \in PostLabels}

RawTexts == UNION {[1..n -> PostLines] : n \in 0..MaxRawLen}

\* train() at line 126 of its first call, the recorder about to hand back any
\* text: the recorder is not this file's code, and what it returns is its own.
InitPost ==
    /\ kinds = [i \in 1..2 |-> "all"]
    /\ use_fsdp = FALSE
    /\ given = kinds
    /\ layers = [i \in 1..2 |-> LayerNames[i]]
    /\ recStrict = FALSE
    /\ forward = [i \in 1..2 |-> "wrapped"]
    /\ forward_ = [i \in 1..2 |-> "orig"]
    /\ hooks = [i \in 1..2 |-> 1]
    /\ param_groups = <<[params |-> 1, layer |-> LayerNames[1]]>>
    /\ pc = "finish_trace"
    /\ profile = TRUE
    /\ stepPc = "-"
    /\ iter = 0
    /\ fwdIdx = 3
    /\ tape = <<>>
    /\ recActive = TRUE
    /\ recBuf \in RawTexts
    /\ clock = ClockStart
    /\ pending = FALSE
    /\ raw = <<>>
    /\ traces = <<>>
    /\ returned = NoReturn
    /\ error = ""
    /\ dest \in {NoFile, OldFile}
    /\ destAtCall = dest
    /\ runs = 1

NextPost ==
    \/ FinishTrace
    \/ SortTraces
    \/ WriteFile
    \/ Return

\* Post-processing (lines 126-134) of every text of up to MaxRawLen lines.
SpecPost == InitPost /\ [][NextPost]_vars

\* ------------------------------------------------------------- properties
Positions(tr, lb) == {k \in 1..Len(tr) : tr[k].label = lb}

Count(tr, lb) == Cardinality(Positions(tr, lb))

\* Every line labelled a stands before every line labelled b.
Before(tr, a, b) == \A p \in Positions(tr, a), q \in Positions(tr, b) : p < q

BackwardPositions(tr, i) ==
    Positions(tr, <<"backward start", Name(i)>>) \cup Positions(tr, <<"backward end", Name(i)>>)

Phases == {"forward start", "forward end", "backward start", "backward end"}

AllTrainable3 == [i \in 1..3 |-> "all"]

\* C1: in the trace train() returns, every layer that has parameters, all of
\* them requiring grad, has exactly one line for each of forward start,
\* forward end, backward start and backward end, and in both phases the
\* start line stands before the end line.
C1_OnePairPerPhaseInOrder ==
    returned.set =>
        \A i \in 1..N : kinds[i] = "all" =>
            /\ \A ph \in Phases : Count(returned.value, <<ph, Name(i)>>) = 1
            /\ Before(returned.value, <<"forward start", Name(i)>>, <<"forward end", Name(i)>>)
            /\ Before(returned.value, <<"backward start", Name(i)>>, <<"backward end", Name(i)>>)

\* C2: in the trace train() returns, the backward lines of a layer applied
\* later in forward all stand before the backward lines of every layer
\* applied earlier: L3's before L2's, L2's before L1's.
C2_BackwardInReverseOrder ==
    returned.set =>
        \A i \in 1..N, j \in 1..N : i < j =>
            \A p \in BackwardPositions(returned.value, j),
               q \in BackwardPositions(returned.value, i) : p < q

\* C2's case: a trace returned for three trainable layers, each with its
\* backward lines.
C2_Witness ==
    /\ returned.set
    /\ kinds = AllTrainable3
    /\ \A i \in 1..3 : Cardinality(BackwardPositions(returned.value, i)) = 2

\* C3: in the trace train() returns, a layer with no trainable parameter
\* (none at all, or all frozen) has its forward start and forward end lines
\* and no backward end line.
C3_NoBackwardEndWithoutTrainableParameters ==
    returned.set =>
        \A i \in 1..N : kinds[i] \in {"frozen", "none"} =>
            /\ Count(returned.value, <<"forward start", Name(i)>>) >= 1
            /\ Count(returned.value, <<"forward end", Name(i)>>) >= 1
            /\ Count(returned.value, <<"backward end", Name(i)>>) = 0

Occurrences(tr, l) == Cardinality({k \in 1..Len(tr) : tr[k] = l})

Lines(tr) == {tr[k] : k \in 1..Len(tr)}

IsPermutation(a, b) ==
    /\ Len(a) = Len(b)
    /\ \A l \in Lines(a) \cup Lines(b) : Occurrences(a, l) = Occurrences(b, l)

\* The lines train() got from the recorder: its text, stripped and split.
RecorderLines == StripSplit(raw)

Numeric(l) == IntOf(l.field)

\* C4: the list train() returns is the list it wrote to the destination, is
\* in ascending order of the numeric value of the leading fields, and is a
\* permutation of the lines the recorder returned.
C4_SortedPermutationWritten ==
    returned.set =>
        /\ dest = [exists |-> TRUE, lines |-> returned.value]
        /\ \A k \in 1..(Len(returned.value) - 1) :
               Numeric(returned.value[k]) <= Numeric(returned.value[k + 1])
        /\ IsPermutation(returned.value, RecorderLines)

\* C4's case: the recorder returned "10,..." before "9,...", which the order
\* of the strings would leave in place, and train() has returned.
C4_Witness ==
    /\ returned.set
    /\ Len(raw) >= 2
    /\ raw[1].field = <<"1", "0">>
    /\ raw[2].field = <<"9">>

\* C5: the lines with one timestamp value are, in the list train() returns,
\* in the order in which the recorder returned them.
C5_TiesKeepRecorderOrder ==
    returned.set =>
        \A l \in Lines(RecorderLines) :
            SelectSeq(returned.value, LAMBDA x : Numeric(x) = Numeric(l))
                = SelectSeq(RecorderLines, LAMBDA x : Numeric(x) = Numeric(l))

\* C5's case: two different lines with one timestamp value, behind a line
\* with a larger one (so the sort moved them), and train() has returned.
C5_Witness ==
    /\ returned.set
    /\ Len(raw) = 3
    /\ Numeric(raw[1]) > Numeric(raw[2])
    /\ Numeric(raw[2]) = Numeric(raw[3])
    /\ raw[2] # raw[3]

Malformed(tr) == \E k \in 1..Len(tr) : IntFails(LeadingField(tr[k]))

C7_GroupsExcludeLastLayer ==
    (pc # "constructed" /\ N >= 2) =>
        /\ Len(param_groups) = N - 1
        /\ \A i \in 1..(N - 1) :
               param_groups[i].layer = Name(i) /\ param_groups[i].params = i
        /\ \A g \in 1..Len(param_groups) :
               param_groups[g].layer # Name(N) /\ param_groups[g].params # N

\* C7's case: train() has built the groups of a model of three layers.
C7_Witness == pc = "warmup" /\ N = 3 /\ Len(param_groups) = 2

OptimizerLine(l) ==
    \E k \in 1..Len(OptimizerLabels(TRUE)) : l.label = OptimizerLabels(TRUE)[k]

\* C8, as claimed: the trace train() returns for three trainable layers has
\* exactly 12 lines.
C8_TwelveLines ==
    (returned.set /\ kinds = AllTrainable3) => Len(returned.value) = 12

\* C8, amended: the trace train() returns for three trainable layers has
\* exactly 14 lines of the layers and the loss: forward start and end and
\* backward start and end of each of the three layers (12), and forward start
\* and end of the loss (2).  Every other line of it is one the optimizer
\* recorded for step(profile=True).
C8_FourteenLayerAndLossLines ==
    (returned.set /\ kinds = AllTrainable3) =>
        /\ Len(SelectSeq(returned.value, LAMBDA l : ~OptimizerLine(l))) = 14
        /\ \A i \in 1..3 : \A ph \in Phases : Count(returned.value, <<ph, Name(i)>>) = 1
        /\ Count(returned.value, <<"forward start", "loss">>) = 1
        /\ Count(returned.value, <<"forward end", "loss">>) = 1

\* C8's case: train() has returned the trace of three trainable layers.
C8_Witness == returned.set /\ kinds = AllTrainable3 /\ Len(returned.value) >= 14

\* C9: finish_trace() is called only from line 126 and only when no device
\* work has been dispatched since the last synchronisation barrier.
C9_BarrierBeforeFinish ==
    [][(recActive /\ ~recActive') => (pc = "finish_trace" /\ ~pending)]_vars

\* C9's case: the profiled step has run and finish_trace() has been called.
C9_Witness == pc = "sort" /\ runs = 1 /\ Len(raw) >= 6

\* C10: once a step cycle has failed, in warm-up, in the steady steps or in
\* the profiled step, train() has raised, has returned no trace, and the
\* destination is as it was when train() was called.
C10_FailedStepLeavesNoTrace ==
    [][(InStep /\ pc' # pc /\ pc' \notin {"steady", "synchronize", "synchronize_profiled"}) =>
          (/\ pc' = "raised"
           /\ error' # ""
           /\ ~returned'.set
           /\ dest' = destAtCall'
           /\ destAtCall' = destAtCall)]_vars
    /\ [](pc = "raised" => (error # "" /\ ~returned.set /\ dest = destAtCall))

\* C10's case: the profiled step has failed with lines already recorded, the
\* destination holding an earlier file.
C10_Witness ==
    /\ pc = "raised"
    /\ error = "RuntimeError"
    /\ recActive
    /\ Len(recBuf) >= 2
    /\ dest = OldFile

\* C11: after train() has returned, the destination exists and holds exactly
\* the sorted trace lines, first to last with nothing before, between or
\* after them, and no line of what it held when train() was called.
C11_WriteReplacesDestination ==
    returned.set =>
        /\ dest.exists
        /\ dest.lines = Sorted(RecorderLines)
        /\ \A k \in 1..Len(dest.lines) : dest.lines[k] \notin Lines(destAtCall.lines)

\* C11's case: train() has returned two lines or more, called on a
\* destination that held an earlier file.
C11_Witness ==
    /\ returned.set
    /\ destAtCall = OldFile
    /\ Len(returned.value) >= 2

\* A float written with a point: digits, one point, at least one digit in all.
IsFloat(s) ==
    /\ Len(s) >= 2
    /\ Cardinality({i \in 1..Len(s) : s[i] = "."}) = 1
    /\ \A i \in 1..Len(s) : s[i] = "." \/ IsDigit(s[i])

\* A leading field that is an integer or a float timestamp.
IsTimestamp(s) == ~IntFails(s) \/ IsFloat(s)

\* C12: post-processing does not reject a text every line of which has an
\* integer or a float timestamp as its leading field: when train() raises
\* from the sort, some line's leading field is neither.
C12_FloatTimestampsAccepted ==
    (pc = "raised" /\ error = "ValueError") =>
        \E k \in 1..Len(RecorderLines) : ~IsTimestamp(LeadingField(RecorderLines[k]))

\* The places of train(), in the order of its text.
PhaseRank(p) ==
    CASE p = "constructed" -> 0
      [] p = "warmup" -> 1
      [] p = "steady" -> 2
      [] p = "synchronize" -> 3
      [] p = "init_trace" -> 4
      [] p = "profiled" -> 5
      [] p = "synchronize_profiled" -> 6
      [] p = "finish_trace" -> 7
      [] p = "sort" -> 8
      [] p = "write" -> 9
      [] p = "return" -> 10
      [] p = "returned" -> 11
      [] OTHER -> 12

\* A step cycle completes: its last operation returns.
StepDone == InStep /\ stepPc = "opt_zero_grad" /\ pc' # "raised"

\* C13: train() goes through its places in the one order warm-up, steady,
\* barrier, init_trace(), the profiled step, barrier, finish_trace(), sort,
\* write, return, leaving that order only by raising and never going back;
\* warm-up is 10 completed step cycles and steady 5, all with no recorder
\* session open; the session is opened only by init_trace() at line 121 and
\* closed only by finish_trace() at line 126, exactly one step cycle between
\* them; a train() that has returned has written its trace.
C13_PhasesInLinearOrder ==
    /\ [][pc' # pc => (pc' = "raised" \/ PhaseRank(pc') = PhaseRank(pc) + 1)]_vars
    /\ [][(pc' # pc /\ pc' \in {"warmup", "steady", "profiled"}) =>
             (iter' = 0 /\ stepPc' = "zero_grad")]_vars
    /\ [][iter' # iter => (StepDone \/ pc' = "raised")]_vars
    /\ [][StepDone =>
             /\ (pc = "warmup" /\ iter < 9) => (pc' = "warmup" /\ iter' = iter + 1)
             /\ (pc = "warmup" /\ iter >= 9) => (iter = 9 /\ pc' = "steady")
             /\ (pc = "steady" /\ iter < 4) => (pc' = "steady" /\ iter' = iter + 1)
             /\ (pc = "steady" /\ iter >= 4) => (iter = 4 /\ pc' = "synchronize")
             /\ pc = "profiled" => (iter = 0 /\ pc' = "synchronize_profiled")]_vars
    /\ [](pc \in {"constructed", "warmup", "steady", "synchronize", "init_trace"} => ~recActive)
    /\ [][recActive' # recActive =>
             \/ ~recActive /\ pc = "init_trace" /\ pc' = "profiled"
             \/ recActive /\ pc = "finish_trace" /\ pc' = "sort"]_vars
    /\ [](pc \in {"profiled", "synchronize_profiled", "finish_trace"} => recActive)
    /\ [](pc \in {"return", "returned"} =>
             (~recActive /\ dest = [exists |-> TRUE, lines |-> Sorted(RecorderLines)]))

\* C13's case: train() has gone through every place and returned the trace
\* of its one profiled step.
C13_Witness == pc = "returned" /\ N = 2 /\ Len(returned.value) >= 8 /\ ~recActive

\* ------------------------------------------------- train() called again
\* A Trainer built on a model of two trainable layers.
InitAgain ==
    /\ kinds = <<"all", "all">>
    /\ use_fsdp = FALSE
    /\ given = kinds
    /\ layers = [i \in 1..2 |-> LayerNames[i]]
    /\ recStrict \in BOOLEAN
    /\ forward = [i \in 1..2 |-> "orig"]
    /\ forward_ = [i \in 1..2 |-> "unset"]
    /\ hooks = [i \in 1..2 |-> 0]
    /\ param_groups = <<>>
    /\ pc = "constructed"
    /\ profile = FALSE
    /\ stepPc = "-"
    /\ iter = 0
    /\ fwdIdx = 1
    /\ tape = <<>>
    /\ recActive = FALSE
    /\ recBuf = <<>>
    /\ clock = ClockStart
    /\ pending = FALSE
    /\ raw = <<>>
    /\ traces = <<>>
    /\ returned = NoReturn
    /\ error = ""
    /\ dest = NoFile
    /\ destAtCall = dest
    /\ runs = 0

\* Trainer(config, model) again, on a new model of the same layers, in the
\* process of the calls before: the model is not instrumented; the recorder
\* and the destination are as those calls left them.
NewTrainer ==
    /\ pc \in {"returned", "raised"}
    /\ runs < MaxRuns
    /\ forward' = [i \in 1..N |-> "orig"]
    /\ forward_' = [i \in 1..N |-> "unset"]
    /\ hooks' = [i \in 1..N |-> 0]
    /\ param_groups' = <<>>
    /\ pc' = "constructed"
    /\ returned' = NoReturn
    /\ error' = ""
    /\ raw' = <<>>
    /\ traces' = <<>>
    /\ UNCHANGED <<use_fsdp, given, layers, profile,
                   kinds, recStrict, stepPc, iter, fwdIdx, tape, recActive, recBuf,
                   clock, pending, dest, destAtCall, runs>>

NextAgain ==
    \/ TrainEnter
    \/ NewTrainer
    \/ ZeroGrad
    \/ ForwardLayer
    \/ Criterion
    \/ BackwardNode
    \/ OptimizerStep
    \/ OptimizerZeroGrad
    \/ StepFails
    \/ Synchronize
    \/ InitTrace
    \/ SynchronizeProfiled
    \/ FinishTrace
    \/ SortTraces
    \/ WriteFile
    \/ Return

\* Up to MaxRuns calls of train() in one process, each made after the one
\* before it has returned or raised: on the model of the call before (by the
\* same Trainer or by another one built on that model) or on a new model.
SpecAgain == InitAgain /\ [][NextAgain]_vars

\* C14: however often train() is called on a model, every layer has at most
\* one backward-end hook, the forward_ its wrapper calls is the original
\* forward, and so no call of a layer runs the wrapper inside itself.
C14_WrappedAtMostOnce ==
    /\ \A i \in 1..N : hooks[i] <= 1
    /\ \A i \in 1..N : forward_[i] # "wrapped"
    /\ error # "RecursionError"

\* ------------------------------------------------------ Trainer.__init__
\* named_children() of a model that is not wrapped: its layers' names.
ChildNames(g) == [i \in 1..Len(g) |-> LayerNames[i]]

\* The one top-level child of the wrapper FSDP returns: the module it was
\* given.
FsdpChild == "_fsdp_wrapped_module"

\* The kind of a module made of the layers g, as its own parameters() shows it.
WholeKind(g) ==
    IF \A i \in 1..Len(g) : g[i] = "none" THEN "none"
    ELSE IF \A i \in 1..Len(g) : g[i] \in {"all", "none"} THEN "all"
    ELSE IF \A i \in 1..Len(g) : g[i] \in {"frozen", "none"} THEN "frozen"
    ELSE "some"

\* Trainer.__init__(config, model): init_fsdp() when config.use_fsdp (the
\* backend refuses the call or returns the wrapper, which becomes
\* self.model), then self.layers and the names from self.model's
\* named_children().
Construct ==
    /\ pc = "new"
    /\ \E accepted \in (IF use_fsdp THEN BOOLEAN ELSE {TRUE}) :
          IF ~accepted
          THEN /\ Raise("TypeError")
               /\ UNCHANGED <<kinds, layers, forward, forward_, hooks>>
          ELSE /\ kinds' = IF use_fsdp THEN <<WholeKind(given)>> ELSE given
               /\ layers' = IF use_fsdp THEN <<FsdpChild>> ELSE ChildNames(given)
               /\ forward' = [i \in 1..Len(kinds') |-> "orig"]
               /\ forward_' = [i \in 1..Len(kinds') |-> "unset"]
               /\ hooks' = [i \in 1..Len(kinds') |-> 0]
               /\ pc' = "constructed"
               /\ UNCHANGED <<stepPc, error, iter, fwdIdx, tape>>
    /\ UNCHANGED <<use_fsdp, given, profile, recStrict, param_groups, recActive, recBuf,
                   clock, pending, raw, traces, returned, dest, destAtCall, runs>>

\* Trainer(config, model) called, for every model of up to MaxLayers layers,
\* with sharding configured or not.
InitCtor ==
    /\ given \in Models
    /\ use_fsdp \in BOOLEAN
    /\ kinds = given
    /\ layers = <<>>
    /\ recStrict = FALSE
    /\ forward = [i \in 1..Len(kinds) |-> "orig"]
    /\ forward_ = [i \in 1..Len(kinds) |-> "unset"]
    /\ hooks = [i \in 1..Len(kinds) |-> 0]
    /\ param_groups = <<>>
    /\ pc = "new"
    /\ profile = FALSE
    /\ stepPc = "-"
    /\ iter = 0
    /\ fwdIdx = 1
    /\ tape = <<>>
    /\ recActive = FALSE
    /\ recBuf = <<>>
    /\ clock = ClockStart
    /\ pending = FALSE
    /\ raw = <<>>
    /\ traces = <<>>
    /\ returned = NoReturn
    /\ error = ""
    /\ dest = NoFile
    /\ destAtCall = dest
    /\ runs = 0

NextCtor == Construct

SpecCtor == InitCtor /\ [][NextCtor]_vars

\* C15: a Trainer constructed with sharding configured has, as its layer
\* list, the top-level layers of the model it was given, by their names
\* there; the parameter groups train() builds from that list and the layers
\* modify_functions instruments are as many as without sharding.
C15_LayersFromPreShardModel ==
    (pc = "constructed" /\ use_fsdp) =>
        /\ layers = ChildNames(given)
        /\ Len(kinds) = Len(given)
        /\ Len(ParamGroups) = Len(given) - 1

\* The operations of train_step, in the order of its text.
StepRank(s) ==
    CASE s = "zero_grad" -> 1
      [] s = "forward" -> 2
      [] s = "criterion" -> 3
      [] s = "backward" -> 4
      [] s = "step" -> 5
      [] s = "opt_zero_grad" -> 6
      [] OTHER -> 0

\* C16: a step cycle goes through model.zero_grad(), model(inputs), the
\* criterion, loss.backward(), optimizer.step() and optimizer.zero_grad() in
\* that order, one after the other, leaving the order only by raising; none
\* is entered a second time in the cycle: the forward applies each layer
\* once and ends with the last, backward ends when the graph is used up, and
\* after optimizer.zero_grad() the cycle is over.
C16_StepCycleOrder ==
    /\ [][stepPc' # stepPc =>
             \/ pc' = "raised" /\ stepPc' = "-"
             \/ stepPc = "-" /\ stepPc' = "zero_grad" /\ pc' \in {"warmup", "profiled"}
             \/ /\ stepPc \notin {"-", "opt_zero_grad"}
                /\ StepRank(stepPc') = StepRank(stepPc) + 1
                /\ pc' = pc
             \/ stepPc = "opt_zero_grad" /\ stepPc' \in {"zero_grad", "-"}]_vars
    /\ [][(stepPc = "zero_grad" /\ stepPc' = "forward") => (fwdIdx' = 1 /\ tape' = <<>>)]_vars
    /\ [][(stepPc = "forward" /\ pc' # "raised") =>
             /\ fwdIdx' = fwdIdx + 1
             /\ stepPc' = (IF fwdIdx = N THEN "criterion" ELSE "forward")]_vars
    /\ [][(stepPc = "backward" /\ pc' # "raised") =>
             /\ Len(tape') = Len(tape) - 1
             /\ stepPc' = (IF tape' = <<>> THEN "step" ELSE "backward")]_vars
    /\ [][(stepPc = "opt_zero_grad" /\ pc' # "raised") => stepPc' # stepPc]_vars
    /\ [](InStep <=> stepPc # "-")

\* C16's case: a step cycle of a model of three layers has completed and the
\* next one is about to begin.
C16_Witness == pc = "warmup" /\ iter = 1 /\ stepPc = "zero_grad" /\ N = 3

\* optimizer.step(profile=profile) is called and returns.
OptimizerStepCalled == InStep /\ stepPc = "step" /\ stepPc' = "opt_zero_grad"

\* C17: optimizer.step() is called with profile set exactly when the step
\* cycle is the one run inside the recorder's session (between init_trace()
\* and finish_trace()): with it set in the profiled step, and unset in every
\* warm-up and every steady step, none of which runs in a session.
C17_ProfileFlagOnlyInSession ==
    /\ [][OptimizerStepCalled => (profile <=> recActive)]_vars
    /\ [][OptimizerStepCalled => (profile <=> pc = "profiled")]_vars
    /\ [][(OptimizerStepCalled /\ pc \in {"warmup", "steady"}) =>
             (~profile /\ ~recActive /\ recBuf' = recBuf)]_vars
    /\ [][(OptimizerStepCalled /\ pc = "profiled") =>
             (/\ Len(recBuf') = Len(recBuf) + 2
              /\ recBuf'[Len(recBuf) + 1].label = <<"optimizer start", "step">>
              /\ recBuf'[Len(recBuf) + 2].label = <<"optimizer end", "step">>)]_vars

\* C17's case: the sixteenth step cycle has called optimizer.step() inside
\* the session, with the flag set.
C17_Witness ==
    /\ pc = "profiled"
    /\ stepPc = "opt_zero_grad"
    /\ profile
    /\ recActive
    /\ recBuf # <<>>
    /\ recBuf[Len(recBuf)].label = <<"optimizer end", "step">>

\* A step in which timestamp() is called by a layer's wrapper (which then
\* returns, or raises what is not the engine's error) or by the criterion.
TimestampCalled ==
    /\ InStep
    /\ \/ /\ stepPc = "forward"
          /\ \/ pc' = pc /\ fwdIdx' = fwdIdx + 1
             \/ pc' = "raised" /\ error' # "RuntimeError"
       \/ /\ stepPc = "criterion"
          /\ \/ stepPc' = "backward"
             \/ pc' = "raised" /\ error' # "RuntimeError"

\* C18: timestamp() is called by a wrapper or by the criterion only while
\* the recorder has a session open, and train() never raises NotActiveError.
C18_NoTimestampOutsideSession ==
    /\ [][TimestampCalled => recActive]_vars
    /\ [](error # "NotActiveError")

\* C19: when train() has returned or raised, the recorder has no session
\* open, and no call of train() raises AlreadyActiveError at init_trace().
C19_NoSessionLeftOpen ==
    /\ pc \in {"returned", "raised"} => ~recActive
    /\ error # "AlreadyActiveError"

====
